---- MODULE Spec2Model ----
(***************************************************************************)
(* Data Validation Module (src/validation.js): validateEmail,             *)
(* validatePassword and validatePhone over JavaScript values.             *)
(*                                                                         *)
(* A JavaScript string is a sequence of one-character strings.  A regular  *)
(* expression is the sequence of its terms, matched by backtracking as    *)
(* RegExp.prototype.test does, reading and writing the lastIndex of the   *)
(* RegExp object it is called on.                                         *)
(***************************************************************************)
EXTENDS Integers, Sequences, FiniteSets, TLC

\* ------------------------------------------------------------------ bounds

\* Email inputs: every string over EmailAlphabet of at most this length.
MaxEmailLen == 5
\* Phone inputs: runs of at most this many digits after the first digit.
MaxDigits == 16
\* Password inputs: runs of at most this many letters before the suffix.
MaxLetters == 8
\* The callers that call the module's functions in turn.
NumCallers == 2
\* The executions of schema.sql.
MaxSchemaRuns == 3

\* --------------------------------------------------------------- characters

\* WhiteSpace and LineTerminator code points: what \s matches and what
\* String.prototype.trim removes.
WhiteSpace == {" ", "\t", "\n", "\r"}

\* \d
Digit == {"0", "1", "2", "3", "4", "5", "6", "7", "8", "9"}

DigitChar == <<"0", "1", "2", "3", "4", "5", "6", "7", "8", "9">>

\* ------------------------------------------------------ regular expressions

\* A character class: the characters listed, or (negated) all the others.
Class(chars) == [neg |-> FALSE, chars |-> chars]

NotClass(chars) == [neg |-> TRUE, chars |-> chars]

InClass(c, cls) == (c \in cls.chars) # cls.neg

\* Terms: the assertions ^ and $, and a class repeated min..max times
\* (greedy), max unbounded for + .
Bol == [kind |-> "bol", cls |-> Class({}), min |-> 0, max |-> 0, unbounded |-> FALSE]

Eol == [kind |-> "eol", cls |-> Class({}), min |-> 0, max |-> 0, unbounded |-> FALSE]

One(cls) == [kind |-> "class", cls |-> cls, min |-> 1, max |-> 1, unbounded |-> FALSE]

Plus(cls) == [kind |-> "class", cls |-> cls, min |-> 1, max |-> 1, unbounded |-> TRUE]

Rep(cls, lo, hi) == [kind |-> "class", cls |-> cls, min |-> lo, max |-> hi, unbounded |-> FALSE]

\* EMAIL_REGEX with the dot unescaped, /^[^\s@]+@[^\s@]+.[^\s@]+$/: a dot
\* matches any character but a line terminator.
EMAIL_REGEX_unescapedDot ==
  [global |-> FALSE,
   terms |-> << Bol,
                Plus(NotClass(WhiteSpace \cup {"@"})),
                One(Class({"@"})),
                Plus(NotClass(WhiteSpace \cup {"@"})),
                One(NotClass({"\n", "\r"})),
                Plus(NotClass(WhiteSpace \cup {"@"})),
                Eol >>]

\* EMAIL_REGEX with the g flag, /^[^\s@]+@[^\s@]+\.[^\s@]+$/g.
EMAIL_REGEX_global ==
  [global |-> TRUE,
   terms |-> << Bol,
                Plus(NotClass(WhiteSpace \cup {"@"})),
                One(Class({"@"})),
                Plus(NotClass(WhiteSpace \cup {"@"})),
                One(Class({"."})),
                Plus(NotClass(WhiteSpace \cup {"@"})),
                Eol >>]

\* /^[^\s@]+@[^\s@]+\.[^\s@]+$/
EMAIL_REGEX ==
  [global |-> FALSE,
   terms |-> << Bol,
                Plus(NotClass(WhiteSpace \cup {"@"})),
                One(Class({"@"})),
                Plus(NotClass(WhiteSpace \cup {"@"})),
                One(Class({"."})),
                Plus(NotClass(WhiteSpace \cup {"@"})),
                Eol >>]

\* E164_REGEX with the g flag, /^\+[1-9]\d{7,14}$/g: test() then starts at
\* lastIndex and moves it.
E164_REGEX_global ==
  [global |-> TRUE,
   terms |-> << Bol,
                One(Class({"+"})),
                One(Class(Digit \ {"0"})),
                Rep(Class(Digit), 7, 14),
                Eol >>]

\* E164_REGEX counting the first digit apart, /^\+[1-9]\d{8,15}$/.
E164_REGEX_offByOne ==
  [global |-> FALSE,
   terms |-> << Bol,
                One(Class({"+"})),
                One(Class(Digit \ {"0"})),
                Rep(Class(Digit), 8, 15),
                Eol >>]

\* /^\+[1-9]\d{7,14}$/
E164_REGEX ==
  [global |-> FALSE,
   terms |-> << Bol,
                One(Class({"+"})),
                One(Class(Digit \ {"0"})),
                Rep(Class(Digit), 7, 14),
                Eol >>]

\* The characters of /[!@#$%^&*()_+\-=\[\]{};':"\\|,.<>\/?]/
SpecialWhitelist ==
  {"!", "@", "#", "$", "%", "^", "&", "*", "(", ")", "_", "+", "-", "=",
   "[", "]", "{", "}", ";", "'", ":", "\"", "\\", "|", ",", ".", "<", ">",
   "/", "?"}

\* PASSWORD_SPECIAL_REGEX as /[^A-Za-z0-9]/: any character that is no
\* letter and no digit.
PASSWORD_SPECIAL_REGEX_nonAlphanumeric ==
  [global |-> FALSE,
   terms |-> << One(NotClass(Digit \cup
       {"a", "b", "c", "d", "e", "f", "g", "h", "i", "j", "k", "l", "m",
        "n", "o", "p", "q", "r", "s", "t", "u", "v", "w", "x", "y", "z",
        "A", "B", "C", "D", "E", "F", "G", "H", "I", "J", "K", "L", "M",
        "N", "O", "P", "Q", "R", "S", "T", "U", "V", "W", "X", "Y", "Z"})) >>]

PASSWORD_SPECIAL_REGEX ==
  [global |-> FALSE, terms |-> << One(Class(SpecialWhitelist)) >>]

\* The literal /\d/ of validatePassword: a new RegExp object at each
\* evaluation, so its lastIndex is 0 at every call.
DIGIT_REGEX ==
  [global |-> FALSE, terms |-> << One(Class(Digit)) >>]

\* The number of characters of s from index i (0-based) on that are in cls,
\* counted up to cap.
RECURSIVE RunLength(_, _, _, _)
RunLength(s, i, cls, cap) ==
  IF cap = 0 \/ i >= Len(s) \/ ~InClass(s[i + 1], cls)
  THEN 0
  ELSE 1 + RunLength(s, i + 1, cls, cap - 1)

\* The backtracking matcher: the end index of the match of terms k.. of the
\* pattern at index i of s, or -1.  A repeated class first takes as many
\* characters as it can and gives them back one at a time.
RECURSIVE MatchFrom(_, _, _, _)
RECURSIVE GiveBack(_, _, _, _, _)
MatchFrom(terms, k, s, i) ==
  IF k > Len(terms)
  THEN i
  ELSE LET t == terms[k] IN
       CASE t.kind = "bol" ->
              IF i = 0 THEN MatchFrom(terms, k + 1, s, i) ELSE -1
         [] t.kind = "eol" ->
              IF i = Len(s) THEN MatchFrom(terms, k + 1, s, i) ELSE -1
         [] OTHER ->
              GiveBack(terms, k, s, i,
                       RunLength(s, i, t.cls,
                                 IF t.unbounded THEN Len(s) ELSE t.max))

GiveBack(terms, k, s, i, n) ==
  IF n < terms[k].min
  THEN -1
  ELSE LET e == MatchFrom(terms, k + 1, s, i + n) IN
       IF e # -1 THEN e ELSE GiveBack(terms, k, s, i, n - 1)

\* The search for the leftmost match starting at index i or later.
RECURSIVE Search(_, _, _)
Search(terms, s, i) ==
  IF i > Len(s)
  THEN -1
  ELSE LET e == MatchFrom(terms, 1, s, i) IN
       IF e # -1 THEN e ELSE Search(terms, s, i + 1)

\* RegExp.prototype.test on a RegExp whose lastIndex is li: whether s
\* matches, and the lastIndex the call leaves.  Without the g flag the
\* search starts at 0 and lastIndex is left alone; with it the search starts
\* at lastIndex, which becomes the end of the match, or 0 when there is none.
RegExpTest(re, li, s) ==
  LET e == Search(re.terms, s, IF re.global THEN li ELSE 0) IN
  [matched |-> e # -1,
   lastIndex |-> IF re.global THEN (IF e # -1 THEN e ELSE 0) ELSE li]

\* ------------------------------------------------------- JavaScript values

JsNull == [type |-> "null"]

JsUndefined == [type |-> "undefined"]

JsString(s) == [type |-> "string", str |-> s]

JsNumber(n) == [type |-> "number", num |-> n]

JsBoolean(b) == [type |-> "boolean", bool |-> b]

\* An object: either an ordinary one, whose inherited toString gives
\* "[object Object]", or one with no callable toString or valueOf giving a
\* primitive (Object.create(null), JSON.parse('{"toString":1}')).
JsObject(primitive) == [type |-> "object", primitive |-> primitive]

\* The decimal digits of a non-negative integer.
RECURSIVE Decimal(_)
Decimal(n) ==
  IF n < 10
  THEN << DigitChar[n + 1] >>
  ELSE Decimal(n \div 10) \o << DigitChar[(n % 10) + 1] >>

ObjectObject ==
  << "[", "o", "b", "j", "e", "c", "t", " ", "O", "b", "j", "e", "c", "t", "]" >>

\* String(value) for a value that is neither null nor undefined: the string,
\* or the TypeError that ToPrimitive throws.
String(value) ==
  CASE value.type = "string" -> [threw |-> FALSE, str |-> value.str]
    [] value.type = "number" -> [threw |-> FALSE, str |-> Decimal(value.num)]
    [] value.type = "boolean" ->
         [threw |-> FALSE,
          str |-> IF value.bool THEN << "t", "r", "u", "e" >>
                                ELSE << "f", "a", "l", "s", "e" >>]
    [] value.type = "object" ->
         IF value.primitive
         THEN [threw |-> FALSE, str |-> ObjectObject]
         ELSE [threw |-> TRUE, str |-> << >>]

\* String.prototype.trim
RECURSIVE trimStart(_)
trimStart(s) ==
  IF s # << >> /\ Head(s) \in WhiteSpace THEN trimStart(Tail(s)) ELSE s

RECURSIVE trimEnd(_)
trimEnd(s) ==
  IF s # << >> /\ s[Len(s)] \in WhiteSpace
  THEN trimEnd(SubSeq(s, 1, Len(s) - 1))
  ELSE s

\* trimStart in the place of trim.
trim_startOnly(s) == trimStart(s)

trim(s) == trimEnd(trimStart(s))

\* ------------------------------------------------------------ validation.js

ERROR_MESSAGES ==
  [email_format |-> "Invalid email format",
   password_length |-> "Password must be at least 8 characters long",
   password_number |-> "Password must contain at least one number",
   password_special |-> "Password must contain at least one special character",
   phone_format |-> "Invalid phone number format"]

VARIABLES
  errorMessages   \* the ERROR_MESSAGES object: its properties, and whether
                  \* it is frozen

\* Object.freeze(props) without the freeze: the object literal alone.
ObjectFreeze_missing(props) == [frozen |-> FALSE, props |-> props]

\* Object.freeze(props): an object with these properties that is frozen.
ObjectFreeze(props) == [frozen |-> TRUE, props |-> props]

\* ERROR_MESSAGES.key as a call reads it: the property's value at that time,
\* undefined when the object has no such property.
Message(key) ==
  IF key \in DOMAIN errorMessages.props
  THEN errorMessages.props[key]
  ELSE "undefined"

\* normalizeInput(value): the string v, or the exception String(value) throws.
normalizeInput(value) ==
  IF value.type = "null" \/ value.type = "undefined"
  THEN [threw |-> FALSE, str |-> << >>]
  ELSE LET s == String(value) IN
       IF s.threw THEN s ELSE [threw |-> FALSE, str |-> trim(s.str)]

\* result with valid computed as !errors: an array is truthy, also when empty.
result_notErrors(errors) == [valid |-> FALSE, errors |-> errors]

result(errors) == [valid |-> Len(errors) = 0, errors |-> errors]

\* How a call ends: it returns a result, or an exception leaves it.
Returned(r) == [kind |-> "return", result |-> r]

Thrown == [kind |-> "throw", error |-> "TypeError"]

\* Each validate function, called with the RegExp objects' lastIndex values
\* li: how the call ends and the lastIndex values it leaves.
\* validateEmail returning early, without an error, on an empty string.
validateEmail_skipEmpty(value, li) ==
  LET n == normalizeInput(value) IN
  IF n.threw
  THEN [outcome |-> Thrown, lastIndex |-> li]
  ELSE IF n.str = << >>
  THEN [outcome |-> Returned(result(<< >>)), lastIndex |-> li]
  ELSE LET t == RegExpTest(EMAIL_REGEX, li.EMAIL_REGEX, n.str)
           errors == IF ~t.matched THEN << Message("email_format") >> ELSE << >>
       IN [outcome |-> Returned(result(errors)),
           lastIndex |-> [li EXCEPT !.EMAIL_REGEX = t.lastIndex]]

validateEmail(value, li) ==
  LET n == normalizeInput(value) IN
  IF n.threw
  THEN [outcome |-> Thrown, lastIndex |-> li]
  ELSE LET t == RegExpTest(EMAIL_REGEX, li.EMAIL_REGEX, n.str)
           errors == IF ~t.matched THEN << Message("email_format") >> ELSE << >>
       IN [outcome |-> Returned(result(errors)),
           lastIndex |-> [li EXCEPT !.EMAIL_REGEX = t.lastIndex]]

\* validatePassword checking the length of String(value) before trim().
validatePassword_rawLength(value, li) ==
  LET n == normalizeInput(value) IN
  IF n.threw
  THEN [outcome |-> Thrown, lastIndex |-> li]
  ELSE LET v == n.str
           raw == IF value.type \in {"null", "undefined"} THEN << >> ELSE String(value).str
           e1 == IF Len(raw) < 8 THEN << Message("password_length") >> ELSE << >>
           d == RegExpTest(DIGIT_REGEX, 0, v)
           e2 == IF ~d.matched THEN Append(e1, Message("password_number")) ELSE e1
           t == RegExpTest(PASSWORD_SPECIAL_REGEX, li.PASSWORD_SPECIAL_REGEX, v)
           e3 == IF ~t.matched THEN Append(e2, Message("password_special")) ELSE e2
       IN [outcome |-> Returned(result(e3)),
           lastIndex |-> [li EXCEPT !.PASSWORD_SPECIAL_REGEX = t.lastIndex]]

\* validatePassword returning at the first check that fails.
validatePassword_shortCircuit(value, li) ==
  LET n == normalizeInput(value) IN
  IF n.threw
  THEN [outcome |-> Thrown, lastIndex |-> li]
  ELSE LET v == n.str
           t == RegExpTest(PASSWORD_SPECIAL_REGEX, li.PASSWORD_SPECIAL_REGEX, v)
       IN IF Len(v) < 8
          THEN [outcome |-> Returned(result(<< Message("password_length") >>)),
                lastIndex |-> li]
          ELSE IF ~RegExpTest(DIGIT_REGEX, 0, v).matched
          THEN [outcome |-> Returned(result(<< Message("password_number") >>)),
                lastIndex |-> li]
          ELSE [outcome |-> Returned(result(IF ~t.matched
                                            THEN << Message("password_special") >>
                                            ELSE << >>)),
                lastIndex |-> [li EXCEPT !.PASSWORD_SPECIAL_REGEX = t.lastIndex]]

validatePassword(value, li) ==
  LET n == normalizeInput(value) IN
  IF n.threw
  THEN [outcome |-> Thrown, lastIndex |-> li]
  ELSE LET v == n.str
           e1 == IF Len(v) < 8 THEN << Message("password_length") >> ELSE << >>
           d == RegExpTest(DIGIT_REGEX, 0, v)
           e2 == IF ~d.matched THEN Append(e1, Message("password_number")) ELSE e1
           t == RegExpTest(PASSWORD_SPECIAL_REGEX, li.PASSWORD_SPECIAL_REGEX, v)
           e3 == IF ~t.matched THEN Append(e2, Message("password_special")) ELSE e2
       IN [outcome |-> Returned(result(e3)),
           lastIndex |-> [li EXCEPT !.PASSWORD_SPECIAL_REGEX = t.lastIndex]]

\* validatePhone pushing the email message.
validatePhone_emailMessage(value, li) ==
  LET n == normalizeInput(value) IN
  IF n.threw
  THEN [outcome |-> Thrown, lastIndex |-> li]
  ELSE LET t == RegExpTest(E164_REGEX, li.E164_REGEX, n.str)
           errors == IF ~t.matched THEN << Message("email_format") >> ELSE << >>
       IN [outcome |-> Returned(result(errors)),
           lastIndex |-> [li EXCEPT !.E164_REGEX = t.lastIndex]]

validatePhone(value, li) ==
  LET n == normalizeInput(value) IN
  IF n.threw
  THEN [outcome |-> Thrown, lastIndex |-> li]
  ELSE LET t == RegExpTest(E164_REGEX, li.E164_REGEX, n.str)
           errors == IF ~t.matched THEN << Message("phone_format") >> ELSE << >>
       IN [outcome |-> Returned(result(errors)),
           lastIndex |-> [li EXCEPT !.E164_REGEX = t.lastIndex]]

\* module.exports: the three functions by name.
Functions == {"validateEmail", "validatePassword", "validatePhone"}

Validate(fn, value, li) ==
  CASE fn = "validateEmail" -> validateEmail(value, li)
    [] fn = "validatePassword" -> validatePassword(value, li)
    [] fn = "validatePhone" -> validatePhone(value, li)

\* ------------------------------------------------------------------ inputs

Repeat(c, n) == [i \in 1..n |-> c]

\* Every string over these four characters of at most MaxEmailLen characters.
EmailAlphabet == {"a", "@", ".", " "}

EmailStrings == UNION {[1..n -> EmailAlphabet] : n \in 0..MaxEmailLen}

\* Phone-shaped strings: an optional "+", an optional first digit, a run of
\* 0..MaxDigits digits, and a tail.
PhoneTails ==
  {<< >>, << " " >>, << "-" >>, << "a" >>, << "-", "5" >>, << " ", "5" >>, << "+" >>}

PhoneStrings ==
  {sign \o first \o Repeat("5", n) \o tail :
     sign \in {<< >>, << "+" >>},
     first \in {<< >>, << "0" >>, << "1" >>, << "9" >>},
     n \in 0..MaxDigits,
     tail \in PhoneTails}

\* Password-shaped strings: an optional space, a run of 0..MaxLetters
\* letters, at most two characters of PasswordSuffixChars, an optional
\* line end.
PasswordSuffixChars == {"1", "!", "_", "~", " ", "P"}

PasswordSuffixes ==
  {<< >>} \cup {<< x >> : x \in PasswordSuffixChars}
          \cup {<< x, y >> : x \in PasswordSuffixChars, y \in PasswordSuffixChars}

PasswordStrings ==
  {lead \o Repeat("a", n) \o suffix \o trail :
     lead \in {<< >>, << " " >>},
     n \in 0..MaxLetters,
     suffix \in PasswordSuffixes,
     trail \in {<< >>, << "\n" >>}}

\* The inputs of src/validation.test.js.
UserAtTestCom == << "u", "s", "e", "r", "@", "t", "e", "s", "t", ".", "c", "o", "m" >>

Phone14155552671 == << "+", "1", "4", "1", "5", "5", "5", "5", "2", "6", "7", "1" >>

Passw0rdBang == << "P", "a", "s", "s", "w", "0", "r", "d", "!" >>

TestStrings ==
  { UserAtTestCom,
    << "u", "s", "e", "r", "@" >>,
    << " ", " " >> \o UserAtTestCom \o << " ", " " >>,
    Passw0rdBang,
    << "P", "a", "s", "s", "w", "o", "r", "d", "1", "_" >>,
    << "P", "a", "s", "s", "1", "!" >>,
    << "P", "a", "s", "s", "w", "o", "r", "d", "!" >>,
    << "P", "a", "s", "s", "w", "o", "r", "d", "1" >>,
    << "P", "a", "s", "s" >>,
    Phone14155552671,
    << "4", "1", "5", "5", "5", "5", "2", "6", "7", "1" >>,
    << "+", "1", "(", "4", "1", "5", ")", "5", "5", "5", "-", "2", "6", "7", "1" >>,
    << " ", " " >> \o Phone14155552671 \o << " ", " " >> }

Strings == EmailStrings \cup PhoneStrings \cup PasswordStrings \cup TestStrings

\* The values a caller passes: strings, and values of the other types.
Inputs ==
  {JsString(s) : s \in Strings}
    \cup {JsNull, JsUndefined, JsBoolean(TRUE), JsBoolean(FALSE),
          JsObject(TRUE), JsObject(FALSE)}
    \cup {JsNumber(n) : n \in {0, 7, 12345678, 14155552}}

\* What the calls of other callers pass.
OtherInputs == {JsString(UserAtTestCom), JsString(Phone14155552671)}

\* ------------------------------------------------------------ state machine

VARIABLES
  value,          \* the value a caller holds and validates
  lastIndex,      \* the lastIndex of each module-level RegExp object
  call,           \* the caller's latest call: its function ("none" before
                  \* the first call) and whether the caller had called before
  outcome,        \* how that call ended
  memo,           \* the caller's first call: its function and how it ended
  heap,           \* the errors arrays: the elements of the array at each
                  \* address
  results,        \* what each of several callers holds: the result object of
                  \* its latest call, or what it tried on ERROR_MESSAGES
  conforming,     \* the database's standard_conforming_strings setting
  created,        \* whether the table validation_rules exists
  rules,          \* the rows of validation_rules
  idSeq,          \* the last value of the sequence behind validation_rules.id
  now             \* the time of the database: the number of executions of
                  \* schema.sql so far

callvars == << value, call, outcome, memo >>

objvars == << errorMessages, heap, results >>

dbvars == << conforming, created, rules, idSeq, now >>

vars == << callvars, lastIndex, objvars, dbvars >>

\* The callers, the addresses of the errors arrays (address 0 for the array a
\* call makes, and one address per caller), and what a caller holds before
\* its first call.
Callers == 1..NumCallers

Addr == 0..NumCallers

Nothing == [kind |-> "none"]

Init ==
  /\ value \in Inputs
  /\ lastIndex = [EMAIL_REGEX |-> 0, E164_REGEX |-> 0, PASSWORD_SPECIAL_REGEX |-> 0]
  /\ call = [fn |-> "none", again |-> FALSE]
  /\ outcome = [kind |-> "none"]
  /\ memo = [fn |-> "none"]
  /\ errorMessages = ObjectFreeze(ERROR_MESSAGES)
  /\ heap = [a \in Addr |-> << >>]
  /\ results = [c \in Callers |-> Nothing]
  /\ conforming = TRUE
  /\ created = FALSE
  /\ rules = {}
  /\ idSeq = 0
  /\ now = 0

\* The caller takes note of how its call of fn ended, r being what the call
\* gave: the outcome and the lastIndex values it left.
Ends(fn, r) ==
  /\ call' = [fn |-> fn, again |-> call.fn # "none"]
  /\ outcome' = r.outcome
  /\ lastIndex' = r.lastIndex
  /\ memo' = IF memo.fn = "none" THEN [fn |-> fn, outcome |-> r.outcome] ELSE memo
  /\ UNCHANGED << value, objvars, dbvars >>

\* The caller calls validateEmail(value).
CallValidateEmail ==
  \E r \in {validateEmail(value, lastIndex)} : Ends("validateEmail", r)

\* The caller calls validatePassword(value).
CallValidatePassword ==
  \E r \in {validatePassword(value, lastIndex)} : Ends("validatePassword", r)

\* The caller calls validatePhone(value).
CallValidatePhone ==
  \E r \in {validatePhone(value, lastIndex)} : Ends("validatePhone", r)

\* Another caller calls one of the functions with a value of its own.
OtherCall ==
  \E fn \in Functions, v \in OtherInputs :
    /\ lastIndex' = Validate(fn, v, lastIndex).lastIndex
    /\ UNCHANGED << callvars, objvars, dbvars >>

Next ==
  \/ CallValidateEmail
  \/ CallValidatePassword
  \/ CallValidatePhone
  \/ OtherCall

Spec == Init /\ [][Next]_vars

\* ------------------------------------------------- callers and their results

\* The values the several callers validate: one of them in each behaviour.
CallerInputs == {JsString(UserAtTestCom), JsNull}

\* The lastIndex values of the module's RegExp objects when it is loaded.
FreshLastIndex == [EMAIL_REGEX |-> 0, E164_REGEX |-> 0, PASSWORD_SPECIAL_REGEX |-> 0]

\* The callers that hold the array at address a, res being what the callers
\* hold.
Holders(res, a) == {c \in Callers : res[c].kind = "return" /\ res[c].errors = a}

First(S) == CHOOSE c \in S : \A d \in S : c <= d

\* const errors = [] with one array made when the module is loaded and used
\* by every call: the array the first caller holds.
NewArray_shared == First(Callers)

\* const errors = []: a new array.  It is made at address 0, which no caller
\* holds: Settle moves every array a caller holds to an address in Callers.
NewArray == 0

\* The heap h and what the callers hold, res, once the arrays no caller holds
\* are collected and every other array is moved to the address that is the
\* number of the first caller holding it.  Callers that hold the same array
\* before hold the same array after.
Settle(h, res) ==
  [heap |->
     [a \in Addr |->
        IF \E b \in Addr : Holders(res, b) # {} /\ First(Holders(res, b)) = a
        THEN h[CHOOSE b \in Addr : Holders(res, b) # {} /\ First(Holders(res, b)) = a]
        ELSE << >>],
   results |->
     [c \in Callers |->
        IF res[c].kind = "return"
        THEN [res[c] EXCEPT !.errors = First(Holders(res, res[c].errors))]
        ELSE res[c]]]

InitCallers ==
  /\ value \in CallerInputs
  /\ lastIndex = FreshLastIndex
  /\ call = [fn |-> "none", again |-> FALSE]
  /\ outcome = [kind |-> "none"]
  /\ memo = [fn |-> "none"]
  /\ errorMessages = ObjectFreeze(ERROR_MESSAGES)
  /\ heap = [a \in Addr |-> << >>]
  /\ results = [c \in Callers |-> Nothing]
  /\ conforming = TRUE
  /\ created = FALSE
  /\ rules = {}
  /\ idSeq = 0
  /\ now = 0

\* Caller c calls fn(value) and keeps what the call returns: the result object,
\* whose errors is the array the call made and pushed its messages to.  The
\* caller also keeps a copy of the result as it was returned, and whether a
\* caller had by then tried to change ERROR_MESSAGES.
CallerCalls(c) ==
  \E fn \in Functions :
    \E r \in {Validate(fn, value, lastIndex)} :
      \E s \in {IF r.outcome.kind = "return"
                THEN Settle([heap EXCEPT ![NewArray] = r.outcome.result.errors],
                            [results EXCEPT ![c] =
                               [kind |-> "return", fn |-> fn, value |-> value,
                                valid |-> r.outcome.result.valid,
                                errors |-> NewArray,
                                returned |-> r.outcome.result,
                                afterTamper |->
                                  \E d \in Callers : results[d].kind = "tamper",
                                touched |-> FALSE]])
                ELSE Settle(heap, [results EXCEPT ![c] = r.outcome])} :
        /\ lastIndex' = r.lastIndex
        /\ results' = s.results
        /\ heap' = s.heap
        /\ UNCHANGED << callvars, errorMessages, dbvars >>

\* Caller c appends a string of its own to the errors array of the result it
\* holds: r.errors.push(...).
PushError(c) ==
  /\ results[c].kind = "return"
  /\ ~results[c].touched
  /\ heap' = [heap EXCEPT ![results[c].errors] = Append(@, "tampered")]
  /\ results' = [results EXCEPT ![c].touched = TRUE]
  /\ UNCHANGED << callvars, lastIndex, errorMessages, dbvars >>

\* Caller c empties the errors array of the result it holds:
\* r.errors.length = 0.
ClearErrors(c) ==
  /\ results[c].kind = "return"
  /\ ~results[c].touched
  /\ heap' = [heap EXCEPT ![results[c].errors] = << >>]
  /\ results' = [results EXCEPT ![c].touched = TRUE]
  /\ UNCHANGED << callvars, lastIndex, errorMessages, dbvars >>

\* An assignment to, a deletion of, or the addition of a property of an
\* object: nothing happens to a frozen object (the statement is ignored, or
\* throws a TypeError in strict mode).
SetProperty(obj, key, v) ==
  IF obj.frozen
  THEN obj
  ELSE [obj EXCEPT !.props = [k \in DOMAIN obj.props \cup {key} |->
                                IF k = key THEN v ELSE obj.props[k]]]

DeleteProperty(obj, key) ==
  IF obj.frozen
  THEN obj
  ELSE [obj EXCEPT !.props = [k \in DOMAIN obj.props \ {key} |-> obj.props[k]]]

\* Caller c, which holds the exported ERROR_MESSAGES, tries to change an
\* entry, to add one, or to delete one.
TamperSet(c) ==
  \E key \in {"email_format", "password_length", "extra"} :
    /\ errorMessages' = SetProperty(errorMessages, key, "tampered")
    /\ \E s \in {Settle(heap, [results EXCEPT ![c] = [kind |-> "tamper", op |-> "set"]])} :
         results' = s.results /\ heap' = s.heap
    /\ UNCHANGED << callvars, lastIndex, dbvars >>

TamperDelete(c) ==
  \E key \in {"email_format", "phone_format"} :
    /\ errorMessages' = DeleteProperty(errorMessages, key)
    /\ \E s \in {Settle(heap, [results EXCEPT ![c] = [kind |-> "tamper", op |-> "delete"]])} :
         results' = s.results /\ heap' = s.heap
    /\ UNCHANGED << callvars, lastIndex, dbvars >>

NextCallers ==
  \E c \in Callers :
    \/ CallerCalls(c)
    \/ PushError(c)
    \/ ClearErrors(c)
    \/ TamperSet(c)
    \/ TamperDelete(c)

SpecCallers == InitCallers /\ [][NextCallers]_vars

\* -------------------------------------------------------------- schema.sql

\* The rows of VALUES in the INSERT of the seed: each regex_pattern is the
\* text between the quotes of its string constant, character by character.
Seed ==
  << [rule_name |-> "email_format",
      regex_pattern |->
        << "^", "[", "^", "\\", "\\", "s", "@", "]", "+", "@", "[", "^",
           "\\", "\\", "s", "@", "]", "+", "\\", "\\", ".", "[", "^", "\\",
           "\\", "s", "@", "]", "+", "$" >>,
      error_message |-> "Invalid email format"],
     [rule_name |-> "password_length",
      regex_pattern |->
        << "^", ".", "{", "8", ",", "}", "$" >>,
      error_message |-> "Password must be at least 8 characters long"],
     [rule_name |-> "password_number",
      regex_pattern |->
        << ".", "*", "\\", "\\", "d", ".", "*" >>,
      error_message |-> "Password must contain at least one number"],
     [rule_name |-> "password_special",
      regex_pattern |->
        << ".", "*", "[", "!", "@", "#", "$", "%", "^", "&", "*", "(", ")",
           "_", "+", "\\", "\\", "-", "=", "\\", "\\", "[", "\\", "\\",
           "]", "{", "}", ";", "'", "'", ":", "\"", "\\", "\\", "\\", "\\",
           "|", ",", ".", "<", ">", "\\", "\\", "/", "?", "]", ".", "*" >>,
      error_message |-> "Password must contain at least one special character"],
     [rule_name |-> "phone_format",
      regex_pattern |->
        << "^", "\\", "\\", "+", "[", "1", "-", "9", "]", "\\", "\\", "d",
           "{", "7", ",", "1", "4", "}", "$" >>,
      error_message |-> "Invalid phone number format"] >>

\* What a character after a backslash stands for in a string constant when
\* backslash escapes are processed.
Escaped(c) ==
  CASE c = "n" -> "\n"
    [] c = "t" -> "\t"
    [] c = "r" -> "\r"
    [] OTHER -> c

\* The value of the string constant with the given text between its quotes.
\* Two quotes stand for one.  With standard_conforming_strings on (the
\* default) a backslash is an ordinary character; with it off, a backslash
\* and the character after it stand for one character.
RECURSIVE StringConstant(_, _)
StringConstant(text, scs) ==
  IF text = << >>
  THEN << >>
  ELSE IF Len(text) >= 2 /\ text[1] = "'" /\ text[2] = "'"
       THEN << "'" >> \o StringConstant(SubSeq(text, 3, Len(text)), scs)
       ELSE IF ~scs /\ Len(text) >= 2 /\ text[1] = "\\"
            THEN << Escaped(text[2]) >> \o StringConstant(SubSeq(text, 3, Len(text)), scs)
            ELSE << text[1] >> \o StringConstant(SubSeq(text, 2, Len(text)), scs)

\* INSERT ... ON CONFLICT (rule_name) DO UPDATE SET regex_pattern =
\* EXCLUDED.regex_pattern, error_message = EXCLUDED.error_message: the row in
\* conflict is overwritten, and the trigger sets its updated_at.
InsertOnConflictDoNothing_doUpdate(table, v, id, t) ==
  IF \E r \in table : r.rule_name = v.rule_name
  THEN {IF r.rule_name = v.rule_name
        THEN [r EXCEPT !.regex_pattern = v.regex_pattern,
                       !.error_message = v.error_message,
                       !.updated_at = t]
        ELSE r : r \in table}
  ELSE table \cup {[id |-> id, rule_name |-> v.rule_name,
                    regex_pattern |-> v.regex_pattern,
                    error_message |-> v.error_message,
                    created_at |-> t, updated_at |-> t]}

\* INSERT of one row of values v at time t, id being the value drawn from the
\* sequence for it: ON CONFLICT (rule_name) DO NOTHING leaves the table as it
\* is when a row with the rule_name exists (rule_name is UNIQUE).
InsertOnConflictDoNothing(table, v, id, t) ==
  IF \E r \in table : r.rule_name = v.rule_name
  THEN table
  ELSE table \cup {[id |-> id, rule_name |-> v.rule_name,
                    regex_pattern |-> v.regex_pattern,
                    error_message |-> v.error_message,
                    created_at |-> t, updated_at |-> t]}

\* The INSERT of the rows values[k], values[k + 1], ... : each row draws its
\* id from the sequence, whose last value was seq, whether it is inserted or
\* not.
RECURSIVE InsertAll(_, _, _, _, _)
InsertAll(table, values, k, seq, t) ==
  IF k > Len(values)
  THEN table
  ELSE InsertAll(InsertOnConflictDoNothing(table, values[k], seq + k, t),
                 values, k + 1, seq, t)

\* The rows of the seed with their string constants evaluated.
SeedValues(scs) ==
  [k \in 1..Len(Seed) |->
     [Seed[k] EXCEPT !.regex_pattern = StringConstant(@, scs)]]

\* What an administrator writes in a row.
EditedPattern == << ".", "+" >>

EditedMessage == "Edited"

\* The rows an administrator edits.
Editable == {"email_format", "password_length"}

\* --------------------------------------------- a stored pattern as a RegExp

\* The printable ASCII characters in code point order, from U+0020 (the
\* grave accent is written by its code point).
Ascii ==
  << " ", "!", "\"", "#", "$", "%", "&", "'", "(", ")", "*", "+", ",", "-",
     ".", "/", "0", "1", "2", "3", "4", "5", "6", "7", "8", "9", ":", ";",
     "<", "=", ">", "?", "@", "A", "B", "C", "D", "E", "F", "G", "H", "I",
     "J", "K", "L", "M", "N", "O", "P", "Q", "R", "S", "T", "U", "V", "W",
     "X", "Y", "Z", "[", "\\", "]", "^", "_", "U+0060", "a", "b", "c", "d", "e",
     "f", "g", "h", "i", "j", "k", "l", "m", "n", "o", "p", "q", "r", "s",
     "t", "u", "v", "w", "x", "y", "z", "{", "|", "}", "~" >>

CodePoint(c) == 31 + CHOOSE k \in 1..Len(Ascii) : Ascii[k] = c

\* The characters of the class range a-b.
CharRange(a, b) == {Ascii[k - 31] : k \in CodePoint(a)..CodePoint(b)}

\* . matches any character but a line terminator.
AnyChar == NotClass({"\n", "\r"})

\* The number of decimal digits of p from index i on, and their value.
RECURSIVE DigitsFrom(_, _)
DigitsFrom(p, i) ==
  IF i <= Len(p) /\ p[i] \in Digit THEN 1 + DigitsFrom(p, i + 1) ELSE 0

RECURSIVE Number(_, _, _)
Number(p, i, n) ==
  IF n = 0
  THEN 0
  ELSE Number(p, i, n - 1) * 10
         + (CHOOSE k \in 1..10 : DigitChar[k] = p[i + n - 1]) - 1

\* The quantifier {n}, {n,} or {n,m} at index i of p, where p[i] is the
\* brace; a brace that starts no quantifier is a character of the pattern.
Braces(p, i) ==
  LET once == [min |-> 1, max |-> 1, unbounded |-> FALSE, next |-> i]
      n1 == DigitsFrom(p, i + 1)
      j == i + 1 + n1
      lo == Number(p, i + 1, n1)
      n2 == DigitsFrom(p, j + 1)
      k == j + 1 + n2 IN
  IF n1 = 0 \/ j > Len(p)
  THEN once
  ELSE IF p[j] = "}"
       THEN [min |-> lo, max |-> lo, unbounded |-> FALSE, next |-> j + 1]
       ELSE IF p[j] = "," /\ k <= Len(p) /\ p[k] = "}"
            THEN IF n2 = 0
                 THEN [min |-> lo, max |-> lo, unbounded |-> TRUE, next |-> k + 1]
                 ELSE [min |-> lo, max |-> Number(p, j + 1, n2),
                       unbounded |-> FALSE, next |-> k + 1]
            ELSE once

\* The quantifier at index i of p, if there is one there, and the index
\* after it.
Quantifier(p, i) ==
  IF i > Len(p)
  THEN [min |-> 1, max |-> 1, unbounded |-> FALSE, next |-> i]
  ELSE CASE p[i] = "*" -> [min |-> 0, max |-> 0, unbounded |-> TRUE, next |-> i + 1]
         [] p[i] = "+" -> [min |-> 1, max |-> 1, unbounded |-> TRUE, next |-> i + 1]
         [] p[i] = "?" -> [min |-> 0, max |-> 1, unbounded |-> FALSE, next |-> i + 1]
         [] p[i] = "{" -> Braces(p, i)
         [] OTHER -> [min |-> 1, max |-> 1, unbounded |-> FALSE, next |-> i]

\* The character or escape at index i of p: \s and \d stand for their sets,
\* \n, \t and \r for their characters, and a backslash before any other
\* character for that character.
ClassAtom(p, i) ==
  IF p[i] = "\\" /\ i < Len(p)
  THEN CASE p[i + 1] = "s" -> [isSet |-> TRUE, chars |-> WhiteSpace, next |-> i + 2]
         [] p[i + 1] = "d" -> [isSet |-> TRUE, chars |-> Digit, next |-> i + 2]
         [] OTHER -> [isSet |-> FALSE, chars |-> {Escaped(p[i + 1])}, next |-> i + 2]
  ELSE [isSet |-> FALSE, chars |-> {p[i]}, next |-> i + 1]

\* The members of a character class from index i of p up to its closing
\* bracket, acc being the characters collected so far.  a-b is the range
\* from a to b, a SyntaxError when b comes before a; with \s or \d at an end
\* the hyphen stands for itself.  A class that is not closed is a
\* SyntaxError.
RECURSIVE ClassItems(_, _, _)
ClassItems(p, i, acc) ==
  IF i > Len(p)
  THEN [ok |-> FALSE, chars |-> acc, next |-> i]
  ELSE IF p[i] = "]"
       THEN [ok |-> TRUE, chars |-> acc, next |-> i + 1]
       ELSE LET a == ClassAtom(p, i) IN
            IF a.next + 1 <= Len(p) /\ p[a.next] = "-" /\ p[a.next + 1] # "]"
            THEN LET b == ClassAtom(p, a.next + 1) IN
                 IF a.isSet \/ b.isSet
                 THEN ClassItems(p, b.next, acc \cup a.chars \cup {"-"} \cup b.chars)
                 ELSE LET lo == CHOOSE c \in a.chars : TRUE
                          hi == CHOOSE c \in b.chars : TRUE IN
                      IF CodePoint(lo) > CodePoint(hi)
                      THEN [ok |-> FALSE, chars |-> acc, next |-> i]
                      ELSE ClassItems(p, b.next, acc \cup CharRange(lo, hi))
            ELSE ClassItems(p, a.next, acc \cup a.chars)

\* The atom at index i of p: a dot, an escape, a character class or a
\* character.  A backslash that ends the pattern is a SyntaxError.
Atom(p, i) ==
  CASE p[i] = "." -> [ok |-> TRUE, cls |-> AnyChar, next |-> i + 1]
    [] p[i] = "\\" ->
         IF i = Len(p)
         THEN [ok |-> FALSE, cls |-> Class({}), next |-> i]
         ELSE [ok |-> TRUE, cls |-> Class(ClassAtom(p, i).chars), next |-> i + 2]
    [] p[i] = "[" ->
         LET neg == i < Len(p) /\ p[i + 1] = "^"
             items == ClassItems(p, IF neg THEN i + 2 ELSE i + 1, {}) IN
         [ok |-> items.ok,
          cls |-> IF neg THEN NotClass(items.chars) ELSE Class(items.chars),
          next |-> items.next]
    [] OTHER -> [ok |-> TRUE, cls |-> Class({p[i]}), next |-> i + 1]

\* The terms of the pattern p from index i on, acc being the terms before.
\* A quantifier with nothing to repeat is a SyntaxError.  Groups and
\* alternatives are not part of the patterns read here and are refused.
RECURSIVE Terms(_, _, _)
Terms(p, i, acc) ==
  IF i > Len(p)
  THEN [ok |-> TRUE, terms |-> acc]
  ELSE CASE p[i] = "^" -> Terms(p, i + 1, Append(acc, Bol))
         [] p[i] = "$" -> Terms(p, i + 1, Append(acc, Eol))
         [] p[i] \in {"*", "+", "?", "(", ")", "|"} -> [ok |-> FALSE, terms |-> acc]
         [] OTHER ->
              LET a == Atom(p, i) IN
              IF ~a.ok
              THEN [ok |-> FALSE, terms |-> acc]
              ELSE LET q == Quantifier(p, a.next) IN
                   Terms(p, q.next,
                         Append(acc, [kind |-> "class", cls |-> a.cls,
                                      min |-> q.min, max |-> q.max,
                                      unbounded |-> q.unbounded]))

\* new RegExp(pattern): the RegExp object, or (ok false) a SyntaxError.
NewRegExp(pattern) ==
  LET t == Terms(pattern, 1, << >>) IN
  [ok |-> t.ok, global |-> FALSE, terms |-> t.terms]

\* Whether new RegExp(pattern).test(s) is true: false when the pattern is no
\* regular expression.
PatternMatches(pattern, s) ==
  \E re \in {NewRegExp(pattern)} : re.ok /\ RegExpTest(re, 0, s).matched

\* ---------------------------------------------- the database and its rules

\* The normalized strings the rules are applied to.
RuleInputs ==
  {UserAtTestCom, Phone14155552671, Passw0rdBang, << "\\", "d" >>,
   Repeat("a", 4) \o << "\n" >> \o Repeat("a", 4), << >>}

InitDb ==
  /\ value \in {JsString(s) : s \in RuleInputs}
  /\ lastIndex = FreshLastIndex
  /\ call = [fn |-> "none", again |-> FALSE]
  /\ outcome = [kind |-> "none"]
  /\ memo = [fn |-> "none"]
  /\ errorMessages = ObjectFreeze(ERROR_MESSAGES)
  /\ heap = [a \in Addr |-> << >>]
  /\ results = [c \in Callers |-> Nothing]
  /\ conforming \in BOOLEAN
  /\ created = FALSE
  /\ rules = {}
  /\ idSeq = 0
  /\ now = 0

\* schema.sql is executed: CREATE TABLE IF NOT EXISTS, the INSERT of the
\* seed, and the trigger, which is dropped and created again.
RunSchema ==
  /\ now < MaxSchemaRuns
  /\ created' = TRUE
  /\ rules' = InsertAll(rules, SeedValues(conforming), 1, idSeq, now)
  /\ idSeq' = idSeq + Len(Seed)
  /\ now' = now + 1
  /\ UNCHANGED << callvars, lastIndex, objvars, conforming >>

\* An administrator updates the regex_pattern or the error_message of a
\* row; the trigger sets updated_at.
UpdateRule ==
  /\ created
  /\ \E r \in rules :
       /\ r.rule_name \in Editable
       /\ \/ rules' = (rules \ {r})
                        \cup {[r EXCEPT !.regex_pattern = EditedPattern,
                                        !.updated_at = now]}
          \/ rules' = (rules \ {r})
                        \cup {[r EXCEPT !.error_message = EditedMessage,
                                        !.updated_at = now]}
  /\ UNCHANGED << callvars, lastIndex, objvars, conforming, created, idSeq, now >>

\* The function that makes the check of a rule.
RuleFunction(name) ==
  CASE name = "email_format" -> "validateEmail"
    [] name = "phone_format" -> "validatePhone"
    [] OTHER -> "validatePassword"

\* Whether the check of the rule passes on value: the function does not
\* return the message of the rule.
CheckPasses(name, v) ==
  \E r \in {Validate(RuleFunction(name), v, lastIndex).outcome.result} :
    \A i \in 1..Len(r.errors) : r.errors[i] # Message(name)

\* A reader of the store takes a row, applies its regex_pattern to the
\* normalized value, and makes the check of the Validator on the same value.
ApplyRule ==
  /\ \E r \in rules :
       outcome' = [kind |-> "rule",
                   rule_name |-> r.rule_name,
                   seeded |-> r.regex_pattern # EditedPattern,
                   matches |-> PatternMatches(r.regex_pattern, normalizeInput(value).str),
                   passes |-> CheckPasses(r.rule_name, value)]
  /\ UNCHANGED << value, call, memo, lastIndex, objvars, dbvars >>

NextDb ==
  \/ RunSchema
  \/ UpdateRule
  \/ ApplyRule

SpecDb == InitDb /\ [][NextDb]_vars

\* ------------------------------------------------------------------ claims

\* The caller's latest call has returned a result.
HasReturned == call.fn # "none" /\ outcome.kind = "return"

\* The normalized string of the caller's value.
Normalized == normalizeInput(value).str

\* The error-message table of the specification.
EmailMessage == "Invalid email format"

LengthMessage == "Password must be at least 8 characters long"

NumberMessage == "Password must contain at least one number"

SpecialMessage == "Password must contain at least one special character"

PhoneMessage == "Invalid phone number format"

Contains(errors, m) == \E i \in 1..Len(errors) : errors[i] = m

\* C1: whenever a validate function returns, valid is true if and only if
\* errors is the empty list.
C1_ValidIffNoErrors ==
  HasReturned => (outcome.result.valid = TRUE <=> outcome.result.errors = << >>)

\* A whitespace-only string was validated as a password and the result is
\* invalid with a non-empty errors list.
C1_Witness ==
  /\ HasReturned
  /\ call.fn = "validatePassword"
  /\ value = JsString(<< " " >>)
  /\ outcome.result.valid = FALSE
  /\ outcome.result.errors # << >>

\* Whether some character of v is in the set chars.
HasCharIn(v, chars) == \E i \in 1..Len(v) : v[i] \in chars

\* The messages of the password checks that fail on v, in the order length,
\* number, special character.
FailedPasswordChecks(v) ==
  (IF Len(v) < 8 THEN << LengthMessage >> ELSE << >>)
    \o (IF ~HasCharIn(v, Digit) THEN << NumberMessage >> ELSE << >>)
    \o (IF ~HasCharIn(v, SpecialWhitelist) THEN << SpecialMessage >> ELSE << >>)

EmailShape(v) ==
  LET ats == {i \in 1..Len(v) : v[i] = "@"} IN
  /\ ~HasCharIn(v, WhiteSpace)
  /\ Cardinality(ats) = 1
  /\ \A p \in ats :
       /\ p > 1
       /\ \E q \in (p + 2)..(Len(v) - 1) : v[q] = "."

\* C3: validateEmail returns valid with no errors exactly when the
\* normalized string has the email shape, and otherwise invalid with the one
\* error "Invalid email format".
C3_EmailShape ==
  (HasReturned /\ call.fn = "validateEmail") =>
    outcome.result =
      IF EmailShape(Normalized)
      THEN [valid |-> TRUE, errors |-> << >>]
      ELSE [valid |-> FALSE, errors |-> << EmailMessage >>]

\* A string with whitespace at its ends was validated as an email and found
\* valid.
C3_Witness ==
  /\ HasReturned
  /\ call.fn = "validateEmail"
  /\ value.type = "string"
  /\ Len(value.str) > Len(Normalized)
  /\ outcome.result = [valid |-> TRUE, errors |-> << >>]

\* The shape of an accepted phone number: "+", a digit 1-9, and 7 to 14
\* further digits, 9 to 16 characters in all.
PhoneShape(v) ==
  /\ Len(v) >= 9
  /\ Len(v) <= 16
  /\ v[1] = "+"
  /\ v[2] \in {"1", "2", "3", "4", "5", "6", "7", "8", "9"}
  /\ \A i \in 3..Len(v) : v[i] \in Digit

\* C4: validatePhone returns valid with no errors exactly when the
\* normalized string is "+", a digit 1-9 and 7 to 14 further digits, and
\* otherwise invalid with the one error "Invalid phone number format".
C4_PhoneShape ==
  (HasReturned /\ call.fn = "validatePhone") =>
    outcome.result =
      IF PhoneShape(Normalized)
      THEN [valid |-> TRUE, errors |-> << >>]
      ELSE [valid |-> FALSE, errors |-> << PhoneMessage >>]

\* A "+" and 16 digits, the first of them not 0, was rejected as a phone
\* number.
C4_Witness ==
  /\ HasReturned
  /\ call.fn = "validatePhone"
  /\ value = JsString(<< "+", "1" >> \o Repeat("5", 15))
  /\ outcome.result = [valid |-> FALSE, errors |-> << PhoneMessage >>]

\* s without the whitespace at its two ends.
Stripped(s) ==
  LET keep == {i \in 1..Len(s) : s[i] \notin WhiteSpace} IN
  IF keep = {}
  THEN << >>
  ELSE SubSeq(s, CHOOSE i \in keep : \A j \in keep : i <= j,
                 CHOOSE i \in keep : \A j \in keep : i >= j)

\* Whitespace to put at the two ends of a string.
Pads == {<< >>, << " " >>, << "\t", "\n" >>}

\* C5: a null or undefined value is validated as the empty string, and a
\* string is validated as the string without the whitespace at its two ends:
\* the call on s ends as the call on s with whitespace added at or removed
\* from its two ends.
C5_Normalization ==
  call.fn # "none" =>
    /\ value.type \in {"null", "undefined"} =>
         outcome = Validate(call.fn, JsString(<< >>), lastIndex).outcome
    /\ (value.type \notin {"null", "undefined"} /\ ~String(value).threw) =>
         /\ Normalized = Stripped(String(value).str)
         /\ outcome =
              Validate(call.fn, JsString(Stripped(String(value).str)), lastIndex).outcome
    /\ value.type = "string" =>
         \A l \in Pads, r \in Pads :
           outcome = Validate(call.fn, JsString(l \o value.str \o r), lastIndex).outcome

\* "  user@test.com  " was validated as an email and found valid, as
\* "user@test.com" is.
C5_Witness ==
  /\ HasReturned
  /\ call.fn = "validateEmail"
  /\ value = JsString(<< " ", " " >> \o UserAtTestCom \o << " ", " " >>)
  /\ outcome.result.valid = TRUE

\* C6 (as claimed): no call of a validate function ends with an exception.
C6_NeverThrows == outcome.kind # "throw"

\* A-Z, a-z and 0-9.
Alphanumeric ==
  Digit \cup
  {"a", "b", "c", "d", "e", "f", "g", "h", "i", "j", "k", "l", "m",
   "n", "o", "p", "q", "r", "s", "t", "u", "v", "w", "x", "y", "z",
   "A", "B", "C", "D", "E", "F", "G", "H", "I", "J", "K", "L", "M",
   "N", "O", "P", "Q", "R", "S", "T", "U", "V", "W", "X", "Y", "Z"}

HasNonAlphanumeric(v) == \E i \in 1..Len(v) : v[i] \notin Alphanumeric

IsBlank(v) ==
  \/ v.type \in {"null", "undefined"}
  \/ v.type = "string" /\ \A i \in 1..Len(v.str) : v.str[i] \in WhiteSpace

\* C8: a null, undefined, empty or whitespace-only value always fails:
\* validateEmail returns the email message alone, validatePhone the phone
\* message alone, validatePassword the three password messages.
C8_BlankFails ==
  (call.fn # "none" /\ IsBlank(value)) =>
    outcome =
      Returned([valid |-> FALSE,
                errors |->
                  CASE call.fn = "validateEmail" -> << EmailMessage >>
                    [] call.fn = "validatePhone" -> << PhoneMessage >>
                    [] call.fn = "validatePassword" ->
                         << LengthMessage, NumberMessage, SpecialMessage >>])

\* null was validated as an email and failed with the email message.
C8_Witness ==
  /\ call.fn = "validateEmail"
  /\ value = JsNull
  /\ outcome = Returned([valid |-> FALSE, errors |-> << EmailMessage >>])

\* C9: a call of the function of the caller's first call, on the same value,
\* ends as the first call did, whatever calls were made in between; and a
\* call on the normalized value ends as the call on the value.
C9_Deterministic ==
  call.fn # "none" =>
    /\ call.fn = memo.fn => outcome = memo.outcome
    /\ outcome.kind = "return" =>
         outcome = Validate(call.fn, JsString(Normalized), lastIndex).outcome

\* The caller, whose first call validated a valid email, validated it again
\* and got the result of the first call.
C9_Witness ==
  /\ call = [fn |-> "validateEmail", again |-> TRUE]
  /\ memo.fn = "validateEmail"
  /\ outcome = Returned([valid |-> TRUE, errors |-> << >>])

\* The messages of a function's own field.
OwnMessages(fn) ==
  CASE fn = "validateEmail" -> {EmailMessage}
    [] fn = "validatePhone" -> {PhoneMessage}
    [] fn = "validatePassword" -> {LengthMessage, NumberMessage, SpecialMessage}

\* C10: every error a function returns is one of the fixed messages of its
\* own field, and no message is returned twice.
C10_FixedMessages ==
  HasReturned =>
    LET errors == outcome.result.errors IN
    /\ \A i \in 1..Len(errors) : errors[i] \in OwnMessages(call.fn)
    /\ \A i, j \in 1..Len(errors) : errors[i] = errors[j] => i = j

\* A string that is no phone number was rejected with the phone message,
\* which holds nothing of the string.
C10_Witness ==
  /\ HasReturned
  /\ call.fn = "validatePhone"
  /\ value = JsString(<< "+", "1", "(", "4", "1", "5", ")", "5", "5", "5", "-", "2", "6", "7", "1" >>)
  /\ outcome.result.errors = << PhoneMessage >>

\* The number of characters of s that are not whitespace at one of its ends:
\* from its first to its last character that is no whitespace.
InnerLength(s) ==
  LET keep == {i \in 1..Len(s) : s[i] \notin WhiteSpace} IN
  IF keep = {}
  THEN 0
  ELSE (CHOOSE i \in keep : \A j \in keep : i >= j)
         - (CHOOSE i \in keep : \A j \in keep : i <= j) + 1

\* C13: for a string, validatePassword reports the length error exactly when
\* fewer than 8 characters lie between the first and the last character that
\* is no whitespace, both included: whitespace at the ends does not count,
\* whitespace inside does.
C13_LengthOfTrimmed ==
  (HasReturned /\ call.fn = "validatePassword" /\ value.type = "string") =>
    (Contains(outcome.result.errors, LengthMessage) <=> InnerLength(value.str) < 8)

\* A string of 9 characters, 7 without the whitespace at its ends, got the
\* length error.
C13_Witness ==
  /\ HasReturned
  /\ call.fn = "validatePassword"
  /\ value = JsString(<< " " >> \o Repeat("a", 5) \o << "1", "!", "\n" >>)
  /\ outcome.result.errors = << LengthMessage >>

\* The callers that hold the result of a call.
Holding == {c \in Callers : results[c].kind = "return"}

\* What the call of fn on v returns when it is the only call made since the
\* module was loaded.
Alone(fn, v) == Validate(fn, v, FreshLastIndex).outcome.result

\* C11: however the calls of the callers follow one another (a call runs to
\* its end before the next starts: the functions are synchronous), each call
\* returned what it returns when run alone, and left the RegExp objects the
\* calls share as they were when the module was loaded.
C11_AsWhenAlone ==
  /\ lastIndex = FreshLastIndex
  /\ \A c \in Holding :
       results[c].returned = Alone(results[c].fn, results[c].value)

\* Two callers validated the same valid email, one after the other, and both
\* were told it is valid.
C11_Witness ==
  \E c, d \in Holding :
    /\ c # d
    /\ results[c].fn = "validateEmail" /\ results[d].fn = "validateEmail"
    /\ results[c].value = JsString(UserAtTestCom)
    /\ results[d].value = JsString(UserAtTestCom)
    /\ results[c].returned = [valid |-> TRUE, errors |-> << >>]
    /\ results[d].returned = [valid |-> TRUE, errors |-> << >>]

\* C14: no two callers hold the same errors array, and the errors array of a
\* result its caller has not changed holds what the call returned, whatever
\* the other callers did to their results before or after that call.
C14_FreshResult ==
  /\ \A c, d \in Holding : results[c].errors = results[d].errors => c = d
  /\ \A c \in Holding :
       ~results[c].touched => heap[results[c].errors] = results[c].returned.errors

\* Two callers got the same error from the same call; one has changed the
\* errors array of its result, and the array of the other is as returned.
C14_Witness ==
  \E c, d \in Holding :
    /\ results[c].fn = results[d].fn /\ results[c].value = results[d].value
    /\ results[c].returned.errors = << EmailMessage >>
    /\ results[c].touched
    /\ heap[results[c].errors] # results[c].returned.errors
    /\ ~results[d].touched
    /\ heap[results[d].errors] = << EmailMessage >>

\* C15: ERROR_MESSAGES holds the five messages it was made with, whatever the
\* callers called and tried on it, and the errors a call returns are among
\* them.
C15_ConstantTable ==
  /\ errorMessages.props = ERROR_MESSAGES
  /\ \A c \in Holding :
       \A i \in 1..Len(results[c].returned.errors) :
         results[c].returned.errors[i] \in OwnMessages(results[c].fn)

\* After a caller tried to set an entry of ERROR_MESSAGES, a call of another
\* caller returned the email message.
C15_Witness ==
  /\ \E c \in Callers : results[c] = [kind |-> "tamper", op |-> "set"]
  /\ \E c \in Holding :
       /\ results[c].afterTamper
       /\ results[c].returned.errors = << EmailMessage >>

\* The rule names of the rows of validation_rules.
RuleNames == {r.rule_name : r \in rules}

\* A row's regex_pattern and error_message are those of the seed.
AsSeeded(r) ==
  \E k \in DOMAIN Seed :
    /\ Seed[k].rule_name = r.rule_name
    /\ SeedValues(conforming)[k].regex_pattern = r.regex_pattern
    /\ Seed[k].error_message = r.error_message

\* C16: no two rows share a rule_name; once schema.sql has been executed the
\* table holds the five seeded rule names, however often it is executed
\* again; and a row that was updated holds what the update wrote, not the
\* seed, whatever executions followed, while a row that was not is as seeded.
C16_SeedIdempotent ==
  /\ \A r, q \in rules : r.rule_name = q.rule_name => r = q
  /\ created => RuleNames = {Seed[k].rule_name : k \in DOMAIN Seed}
  /\ \A r \in rules : (r.updated_at = r.created_at) <=> AsSeeded(r)

\* schema.sql was executed, the pattern of email_format was updated, and
\* schema.sql was executed again, ten ids drawn in all: the table has its
\* five rows and the updated pattern.
C16_Witness ==
  /\ now >= 2
  /\ idSeq >= 10
  /\ Cardinality(rules) = 5
  /\ \E r \in rules :
       /\ r.rule_name = "email_format"
       /\ r.id = 1
       /\ r.updated_at = 1
       /\ r.regex_pattern = EditedPattern

\* The rule names of the store are the keys of ERROR_MESSAGES, and a row
\* whose error_message was not updated holds the message of the Validator.
SeedNamesAndMessages ==
  /\ created => RuleNames = DOMAIN ERROR_MESSAGES
  /\ \A r \in rules :
       r.error_message # EditedMessage => r.error_message = ERROR_MESSAGES[r.rule_name]

\* C12: the rule names of the store are the keys of ERROR_MESSAGES, each
\* seeded error_message is the message of the Validator, and a seeded
\* regex_pattern matches a normalized value exactly when the check of the
\* Validator for that rule passes on it.
C12_RulesConsistent ==
  /\ SeedNamesAndMessages
  /\ (outcome.kind = "rule" /\ outcome.seeded) => (outcome.matches <=> outcome.passes)

====
